---- MODULE Spec2Model ----
(***************************************************************************)
(* A model of the zero-copy transfer engine of                             *)
(* src/src/tokio/os/copy_file_range.rs: descriptor validation, the two     *)
(* offset strategies (MutateInnerOffset, FromGivenOffset), the single-step *)
(* primitives bridged to a blocking worker, and the three looping drivers  *)
(* copy_file_range, splice_to_pipe and splice_from_pipe.                   *)
(*                                                                         *)
(* The kernel is modelled by what the calls do to two regular files, to    *)
(* the descriptors' file positions and to one pipe.  A syscall starts from *)
(* the counter its offset pointer names, or from the descriptor's file     *)
(* position when the pointer is null, moves the bytes and writes the       *)
(* advanced offset back to the same place.                                 *)
(***************************************************************************)
EXTENDS Integers, Sequences, FiniteSets, TLC

\* ------------------------------------------------------------------ bounds
\* Longest source file, in bytes.
MaxLen == 2
\* Largest full_len a caller asks a driver for.
MaxFull == 2
\* Largest initial counter given to FromGivenOffset::new.
MaxInit == 1
\* Threads that read HAS_COPY_FILE_RANGE, and the reads each makes.
MaxThreads == 2
MaxReads == 3
\* Length of the compressed stream behind a Deflater, and the most bytes it
\* inflates to.
MaxIn == 3
MaxOut == 2
\* Capacity of the pipe, in bytes.
PipeCap == 1
\* Longest source file of the two-task splice scenario, in bytes.
MaxSpliceLen == 4

\* ------------------------------------------------------- program constants
O_RDONLY == 0
O_WRONLY == 1
O_RDWR == 2
O_ACCMODE == 3
O_APPEND == 1024
S_IFMT == 61440
S_IFREG == 32768
EBADF == 9

\* Other open-file types (S_IFIFO, S_IFDIR) and errnos a transfer can fail with
\* (EIO).
OtherFileTypes == {4096, 16384}
Errnos == {5}

InFd == 3
OutFd == 4
Fds == {InFd, OutFd}

Ends == {"src", "dst"}
Tasks == {"copy_file_range", "splice_to_pipe", "splice_from_pipe"}
NULL == "null"

FdOf(e) == IF e = "src" THEN InFd ELSE OutFd

\* --------------------------------------------------------------- io::Result
NoError == [kind |-> "none", code |-> 0, msg |-> ""]
OsError(errno) == [kind |-> "Os", code |-> errno, msg |-> ""]
OtherError(m) == [kind |-> "Other", code |-> 0, msg |-> m]
Ok(v) == [ok |-> TRUE, val |-> v, err |-> NoError]
Err(e) == [ok |-> FALSE, val |-> 0, err |-> e]
NoResult == [ok |-> FALSE, val |-> 0, err |-> [kind |-> "pending", code |-> 0, msg |-> ""]]

Min(a, b) == IF a < b THEN a ELSE b
Max(a, b) == IF a > b THEN a ELSE b

\* a & b on non-negative integers.
RECURSIVE BitAnd(_, _)
BitAnd(a, b) ==
    IF a = 0 \/ b = 0 THEN 0
    ELSE (IF a % 2 = 1 /\ b % 2 = 1 THEN 1 ELSE 0) + 2 * BitAnd(a \div 2, b \div 2)

VARIABLES
    files,      \* files[fd]: the content of the regular file fd is open on
    fds,        \* fds[fd]: the kernel's descriptor: open, st_mode, flags, pos
    handle,     \* handle[e]: the strategy value built for end e, or why not
    pipe,       \* the pipe: its buffer and whether the write end is open
    jobs,       \* syscalls dispatched to the blocking pool and not yet consumed
    task,       \* task[t]: the driver call of task t (see IdleTask)
    keep,       \* whether callers hold on to the outcome of calls that ended
    life,       \* life[fd]: who owns descriptor fd, and the close(2) calls made on it
    direct,     \* the syscalls made so far on the thread of the calling task itself
    probe,      \* the Lazy cell HAS_COPY_FILE_RANGE and the threads that read it
    deflater    \* a Deflater, its inner source and the task reading through it

vars == <<files, fds, handle, pipe, jobs, task, keep, life, direct, probe, deflater>>

\* What the transfer engine leaves alone.
aside == <<probe, deflater>>

\* ------------------------------------------------------------- validation
Readable == "Readable"
Writable == "Writable"
Roles == {Readable, Writable}

\* fstat(fd): the st_mode, or EBADF on a descriptor that is not open.
check_regular_file(fd) ==
    IF ~fds[fd].open THEN Err(OsError(EBADF))
    ELSE IF BitAnd(fds[fd].st_mode, S_IFMT) = S_IFREG THEN Ok(0)
    ELSE Err(OtherError("Fd is not a regular file"))

\* fcntl(fd, F_GETFL)
get_status_flags(fd) ==
    IF ~fds[fd].open THEN Err(OsError(EBADF)) ELSE Ok(fds[fd].flags)

\* allowed_modes without O_RDWR for a reader.
allowed_modes_rdonly_only(role) ==
    IF role = Readable THEN {O_RDONLY} ELSE {O_WRONLY, O_RDWR}

allowed_modes(role) ==
    IF role = Readable THEN {O_RDONLY, O_RDWR} ELSE {O_WRONLY, O_RDWR}

\* check_append that lets append-mode descriptors through.
check_append_ignored(role, flags) == Ok(0)

check_append(role, flags) ==
    IF role = Writable /\ BitAnd(flags, O_APPEND) # 0
    THEN Err(OtherError("Writable Fd was set for append!"))
    ELSE Ok(0)

errmsg(role) ==
    IF role = Readable THEN "Fd is not readable!" ELSE "Fd is not writable!"

\* validate_flags looking at the append flag before the access mode.
validate_flags_append_first(role, flags) ==
    LET access_mode == BitAnd(flags, O_ACCMODE) IN
    IF ~check_append(role, flags).ok THEN check_append(role, flags)
    ELSE IF access_mode \notin allowed_modes(role) THEN Err(OtherError(errmsg(role)))
    ELSE Ok(0)

validate_flags(role, flags) ==
    LET access_mode == BitAnd(flags, O_ACCMODE) IN
    IF access_mode \notin allowed_modes(role) THEN Err(OtherError(errmsg(role)))
    ELSE IF ~check_append(role, flags).ok THEN check_append(role, flags)
    ELSE Ok(0)

\* The syscalls validate_raw_fd makes, there and then, on the calling thread:
\* fstat, and fcntl unless `?` returned after the first check.
validate_raw_fd_calls(fd) ==
    IF check_regular_file(fd).ok THEN {"fstat", "fcntl"} ELSE {"fstat"}

validate_raw_fd(fd, role) ==
    IF ~check_regular_file(fd).ok THEN check_regular_file(fd)
    ELSE IF ~get_status_flags(fd).ok THEN get_status_flags(fd)
    ELSE IF ~validate_flags(role, get_status_flags(fd).val).ok
         THEN validate_flags(role, get_status_flags(fd).val)
    ELSE Ok(fd)

NoStart == [at |-> 0, pos |-> 0, size |-> 0]

\* A call's record: where it stands (pc), its argument and its local
\* `remaining`, the io::Result it returned, and as history: where each end
\* stood when it began (start), the bytes the kernel moved for it so far
\* (callMoved), those of them moved after the call was cancelled (bgMoved), the
\* last cur_written it saw (lastStep, -1: none), the error of the syscall of
\* its that failed (sysErr) and the steps it has dispatched (steps).
IdleTask ==
    [pc |-> "idle", full_len |-> 0, remaining |-> 0, result |-> NoResult,
     start |-> [e \in Ends |-> NoStart], callMoved |-> 0, bgMoved |-> 0,
     lastStep |-> -1, sysErr |-> NoError, steps |-> 0]

\* A call that has ended leaves nothing behind in the engine: its io::Result
\* went to the caller.  Unless the callers keep them, the records of ended
\* calls are cleared by the next step anything takes.
Forgotten(u) ==
    /\ ~keep
    /\ task[u].pc # "await"
    /\ \A j \in jobs : j.task # u

\* Task t's record becomes rec; the other records stay, or are cleared.
Settle(t, rec) ==
    task' = [u \in Tasks |->
                IF u = t THEN rec ELSE IF Forgotten(u) THEN IdleTask ELSE task[u]]

\* A step of no task in particular.
SettleAll ==
    task' = [u \in Tasks |-> IF Forgotten(u) THEN IdleTask ELSE task[u]]

\* -------------------------------------------------------------- strategies
PipeR == 5
PipeW == 6

NoHandle ==
    [state |-> "none", kind |-> "none", role |-> Readable, fd |-> 0,
     offset |-> 0, init |-> 0, err |-> NoError]

\* MutateInnerOffset::new(f, role): f.into_raw_fd() takes the descriptor out of
\* its owner's hands, validation runs on the bare number, and only a
\* descriptor that passed is wrapped in an OwnedFd again.
MutateInnerOffset_new(e, role) ==
    LET raw_fd == validate_raw_fd(FdOf(e), role) IN
    /\ handle[e].state = "none"
    /\ handle' = [handle EXCEPT ![e] =
            IF raw_fd.ok
            THEN [state |-> "ok", kind |-> "MutateInnerOffset", role |-> role,
                  fd |-> raw_fd.val, offset |-> 0, init |-> 0, err |-> NoError]
            ELSE [state |-> "err", kind |-> "MutateInnerOffset", role |-> role,
                  fd |-> FdOf(e), offset |-> 0, init |-> 0, err |-> raw_fd.err]]
    /\ life' = [life EXCEPT ![FdOf(e)].owner = IF raw_fd.ok THEN "strategy" ELSE "nobody"]
    /\ direct' = direct \cup validate_raw_fd_calls(FdOf(e))
    /\ SettleAll
    /\ UNCHANGED <<files, fds, pipe, jobs, keep, aside>>

\* FromGivenOffset::new(&f, role, init): validates, borrows the descriptor and
\* stores `init as i64`.
FromGivenOffset_new(e, role, init) ==
    LET fd == validate_raw_fd(FdOf(e), role) IN
    /\ handle[e].state = "none"
    /\ handle' = [handle EXCEPT ![e] =
            IF fd.ok
            THEN [state |-> "ok", kind |-> "FromGivenOffset", role |-> role,
                  fd |-> fd.val, offset |-> init, init |-> init, err |-> NoError]
            ELSE [state |-> "err", kind |-> "FromGivenOffset", role |-> role,
                  fd |-> FdOf(e), offset |-> 0, init |-> 0, err |-> fd.err]]
    /\ direct' = direct \cup validate_raw_fd_calls(FdOf(e))
    /\ SettleAll
    /\ UNCHANGED <<files, fds, pipe, jobs, keep, life, aside>>

\* as_args of MutateInnerOffset handing out a pointer to a counter.
MutateInnerOffset_as_args_pointer(e) == [fd |-> handle[e].fd, off |-> e]

\* as_args of FromGivenOffset handing out a null pointer.
FromGivenOffset_as_args_null(e) == [fd |-> handle[e].fd, off |-> NULL]

\* RawArgs { fd, off }: a null pointer, so the kernel uses the file position.
MutateInnerOffset_as_args(e) == [fd |-> handle[e].fd, off |-> NULL]

\* RawArgs { fd, off }: a pointer to this strategy's counter.
FromGivenOffset_as_args(e) == [fd |-> handle[e].fd, off |-> e]

as_args(e) ==
    IF handle[e].kind = "FromGivenOffset"
    THEN FromGivenOffset_as_args(e)
    ELSE MutateInnerOffset_as_args(e)

role(e) == handle[e].role

\* The offset a transfer through end e has reached: the counter of a
\* FromGivenOffset, the descriptor's file position of a MutateInnerOffset.
Position(e) ==
    IF handle[e].kind = "FromGivenOffset" THEN handle[e].offset
    ELSE fds[handle[e].fd].pos

\* ------------------------------------------------------------------- Init
Data(n) == [i \in 1..n |-> i]

RegularFlags ==
    {acc + app : acc \in {O_RDONLY, O_WRONLY, O_RDWR}, app \in {0, O_APPEND}}

\* What a descriptor handed to a constructor can be: closed, a regular file
\* opened in any access mode with or without O_APPEND, a FIFO, a directory.
FdChoices ==
    {[open |-> FALSE, st_mode |-> 0, flags |-> 0, pos |-> 0]}
    \cup {[open |-> TRUE, st_mode |-> S_IFREG + 420, flags |-> f, pos |-> 0] :
            f \in RegularFlags}
    \cup {[open |-> TRUE, st_mode |-> m + 420, flags |-> f, pos |-> 0] :
            m \in OtherFileTypes, f \in RegularFlags}

\* The descriptors of the transfer tests: the source opened read-only
\* (fs::File::open), the destination created read-write.
OpenedFds ==
    [fd \in Fds |->
        [open |-> TRUE, st_mode |-> S_IFREG + 420,
         flags |-> IF fd = InFd THEN O_RDONLY ELSE O_RDWR, pos |-> 0]]

\* The probe and the Deflater where nothing touches them.
NoProbe == [platform |-> "linux", cell |-> "uninit"]
NoDeflater == [pc |-> "none"]

InitWith(descriptors, lens, k) ==
    /\ \E n \in lens : files = [fd \in Fds |-> IF fd = InFd THEN Data(n) ELSE <<>>]
    /\ fds \in descriptors
    /\ handle = [e \in Ends |-> NoHandle]
    /\ pipe = [buf |-> <<>>, wOpen |-> TRUE]
    /\ jobs = {}
    /\ task = [t \in Tasks |-> IdleTask]
    /\ keep = k
    /\ life = [fd \in Fds |-> [owner |-> "caller", closes |-> 0]]
    /\ direct = {}

Init == InitWith({OpenedFds}, 0..MaxLen, FALSE) /\ probe = NoProbe /\ deflater = NoDeflater

\* Any descriptors at all, for the constructors' validation.
InitValidate ==
    InitWith([Fds -> FdChoices], 0..MaxLen, FALSE) /\ probe = NoProbe /\ deflater = NoDeflater

\* ----------------------------------------------------------------- kernel
EndsOfTask(t) ==
    CASE t = "copy_file_range" -> {"src", "dst"}
      [] t = "splice_to_pipe" -> {"src"}
      [] OTHER -> {"dst"}

\* The ends whose descriptor a dispatched syscall works on.
JobEnds(j) == {e \in Ends : FdOf(e) \in {j.fd_in, j.fd_out}}

\* The closure handed to the blocking pool: the raw descriptors, the offset
\* pointers (as addresses: the borrow of the strategy does not travel with
\* them) and the length.
Job(t, op, a_in, a_out, len) ==
    [task |-> t, op |-> op,
     fd_in |-> a_in.fd, off_in |-> a_in.off,
     fd_out |-> a_out.fd, off_out |-> a_out.off,
     len |-> len, detached |-> FALSE, state |-> "queued", ret |-> NoResult]

\* pwrite-like effect of moving `data` into a file at byte offset pos: bytes
\* past the old end extend the file, a gap before pos reads as zeros.
WriteAt(content, pos, data) ==
    LET n == IF Len(data) = 0 THEN Len(content)
             ELSE Max(Len(content), pos + Len(data)) IN
    [i \in 1..n |->
        IF i > pos /\ i <= pos + Len(data) THEN data[i - pos]
        ELSE IF i <= Len(content) THEN content[i]
        ELSE 0]

\* The offset a syscall starts from: *off when the pointer is set, the
\* descriptor's file position when it is null; a pipe end has none.
ReadOffset(fd, off) ==
    IF fd \in {PipeR, PipeW} THEN 0
    ELSE IF off = NULL THEN fds[fd].pos
    ELSE handle[off].offset

\* The byte counts the kernel may report for a copy_file_range(2) that does
\* not fail: 0 at or past end of file, else anything from 1 byte to the
\* smaller of len and what is left.
copy_file_range_moves(j) ==
    LET avail == Max(0, Len(files[j.fd_in]) - ReadOffset(j.fd_in, j.off_in)) IN
    IF avail = 0 THEN {0} ELSE 1..Min(j.len, avail)

\* splice(2) from a file into the pipe: 0 at end of file; blocks (no outcome
\* yet) while the pipe is full.
splice_to_pipe_moves(j) ==
    LET avail == Max(0, Len(files[j.fd_in]) - ReadOffset(j.fd_in, j.off_in))
        space == PipeCap - Len(pipe.buf) IN
    IF avail = 0 THEN {0} ELSE 1..Min(Min(j.len, avail), space)

\* splice(2) from the pipe into a file: 0 once the pipe is empty and its
\* write end closed; blocks while it is empty and the write end open.
splice_from_pipe_moves(j) ==
    LET have == Len(pipe.buf) IN
    IF have > 0 THEN 1..Min(j.len, have)
    ELSE IF pipe.wOpen THEN {} ELSE {0}

Moves(j) ==
    CASE j.op = "copy_file_range" -> copy_file_range_moves(j)
      [] j.fd_out = PipeW -> splice_to_pipe_moves(j)
      [] OTHER -> splice_from_pipe_moves(j)

\* A finished syscall: its result waits for the awaiting call, or is dropped
\* with the JoinHandle when the call was cancelled.
Finish(j, r) ==
    jobs' = (jobs \ {j}) \cup
            (IF j.detached THEN {} ELSE {[j EXCEPT !.state = "finished", !.ret = r]})

\* A worker runs the closure and the syscall returns n >= 0: the bytes are
\* moved and, when n > 0, the advanced offsets are written back through the
\* pointers (or to the descriptor's file position).
SysOk(j) ==
    /\ j \in jobs /\ j.state = "queued"
    /\ ~(j.fd_out = PipeW /\ ~pipe.wOpen)
    /\ \E n \in Moves(j) :
        LET pos_in == ReadOffset(j.fd_in, j.off_in)
            pos_out == ReadOffset(j.fd_out, j.off_out)
            data == IF j.fd_in = PipeR THEN SubSeq(pipe.buf, 1, n)
                    ELSE SubSeq(files[j.fd_in], pos_in + 1, pos_in + n) IN
        /\ files' = IF j.fd_out = PipeW THEN files
                    ELSE [files EXCEPT ![j.fd_out] = WriteAt(@, pos_out, data)]
        /\ pipe' = IF j.fd_in = PipeR
                   THEN [pipe EXCEPT !.buf = SubSeq(@, n + 1, Len(@))]
                   ELSE IF j.fd_out = PipeW THEN [pipe EXCEPT !.buf = @ \o data]
                   ELSE pipe
        /\ handle' = [e \in Ends |->
                IF n > 0 /\ j.off_in = e THEN [handle[e] EXCEPT !.offset = pos_in + n]
                ELSE IF n > 0 /\ j.off_out = e
                     THEN [handle[e] EXCEPT !.offset = pos_out + n]
                ELSE handle[e]]
        /\ fds' = [fd \in Fds |->
                IF n > 0 /\ j.fd_in = fd /\ j.off_in = NULL
                THEN [fds[fd] EXCEPT !.pos = pos_in + n]
                ELSE IF n > 0 /\ j.fd_out = fd /\ j.off_out = NULL
                     THEN [fds[fd] EXCEPT !.pos = pos_out + n]
                ELSE fds[fd]]
        /\ Finish(j, Ok(n))
        /\ Settle(j.task, [task[j.task] EXCEPT
                                !.callMoved = @ + n,
                                !.bgMoved = @ + IF j.detached THEN n ELSE 0])
    /\ UNCHANGED <<keep, life, direct, aside>>

\* The syscall fails: cvt! turns -1 into the errno; nothing was moved and no
\* offset is written back.  A splice into a pipe whose write end has been
\* closed fails with EBADF.
SysFail(j) ==
    /\ j \in jobs /\ j.state = "queued"
    /\ \E e \in Errnos \cup {EBADF} :
        /\ (e = EBADF) <=> (j.fd_out = PipeW /\ ~pipe.wOpen)
        /\ Finish(j, Err(OsError(e)))
        /\ Settle(j.task, [task[j.task] EXCEPT !.sysErr = OsError(e)])
    /\ UNCHANGED <<files, fds, handle, pipe, keep, life, direct, aside>>

\* The owner of the pipe's write end drops it.
ClosePipeWrite ==
    /\ pipe.wOpen
    /\ task["splice_to_pipe"].pc # "await"
    /\ pipe' = [pipe EXCEPT !.wOpen = FALSE]
    /\ SettleAll
    /\ UNCHANGED <<files, fds, handle, jobs, keep, life, direct, aside>>

\* ---------------------------------------------------------------- drivers
\* How a piece of a driver's body ends: cur is the call's record, rem the
\* value of `remaining`, r the call's result, js the pool's jobs once the
\* awaited result has been taken.
Return(t, cur, rem, r, js) ==
    /\ Settle(t, [cur EXCEPT !.pc = "done", !.remaining = rem, !.result = r])
    /\ jobs' = js

\* A failed assert!/assert_eq!: the task unwinds.
Panic(t, cur, rem, js) ==
    /\ Settle(t, [cur EXCEPT !.pc = "panicked", !.remaining = rem])
    /\ jobs' = js

\* spawn_blocking without the await: the closure is queued and the call goes
\* on to return.
Dispatch_unawaited(t, cur, rem, js, op, a_in, a_out) ==
    /\ Settle(t, [cur EXCEPT !.pc = "done", !.remaining = rem, !.result = Ok(0)])
    /\ jobs' = js \cup {Job(t, op, a_in, a_out, rem)}

\* task::spawn_blocking(closure).await: the closure is queued and the task
\* suspends.
Dispatch(t, cur, rem, js, op, a_in, a_out) ==
    /\ Settle(t, [cur EXCEPT !.pc = "await", !.remaining = rem, !.steps = @ + 1])
    /\ jobs' = js \cup {Job(t, op, a_in, a_out, rem)}

\* iter_copy_file_range up to its await.
iter_copy_file_range(t, cur, len, js) ==
    IF role("src") # Readable THEN Panic(t, cur, len, js)
    ELSE IF role("dst") # Writable THEN Panic(t, cur, len, js)
    ELSE Dispatch(t, cur, len, js, "copy_file_range", as_args("src"), as_args("dst"))

\* iter_splice_from_pipe up to its await.
iter_splice_from_pipe(t, cur, len, js) ==
    IF role("dst") # Writable THEN Panic(t, cur, len, js)
    ELSE Dispatch(t, cur, len, js, "splice", [fd |-> PipeR, off |-> NULL], as_args("dst"))

\* iter_splice_to_pipe without its assertion on the role.
iter_splice_to_pipe_unchecked(t, cur, len, js) ==
    Dispatch(t, cur, len, js, "splice", as_args("src"), [fd |-> PipeW, off |-> NULL])

\* iter_splice_to_pipe up to its await.
iter_splice_to_pipe(t, cur, len, js) ==
    IF role("src") # Readable THEN Panic(t, cur, len, js)
    ELSE Dispatch(t, cur, len, js, "splice", as_args("src"), [fd |-> PipeW, off |-> NULL])

\* splice_from_pipe's loop giving up after its first step.
splice_from_pipe_loop_once(t, cur, rem, js) ==
    IF rem > 0 /\ rem = cur.full_len THEN iter_splice_from_pipe(t, cur, rem, js)
    ELSE Return(t, cur, rem, Ok(cur.full_len), js)

\* `while remaining > 0 { iter_...(remaining).await ... } Ok(full_len)`,
\* entered with remaining = rem, up to the next await or the return.
copy_file_range_loop(t, cur, rem, js) ==
    IF rem > 0 THEN iter_copy_file_range(t, cur, rem, js)
    ELSE Return(t, cur, rem, Ok(cur.full_len), js)

splice_from_pipe_loop(t, cur, rem, js) ==
    IF rem > 0 THEN iter_splice_from_pipe(t, cur, rem, js)
    ELSE Return(t, cur, rem, Ok(cur.full_len), js)

splice_to_pipe_loop(t, cur, rem, js) ==
    IF rem > 0 THEN iter_splice_to_pipe(t, cur, rem, js)
    ELSE Return(t, cur, rem, Ok(cur.full_len), js)

\* copy_file_range's loop body reporting full_len on zero progress.
copy_file_range_after_full_len(t, cur, r, js) ==
    IF ~r.ok THEN Return(t, cur, cur.remaining, Err(r.err), js)
    ELSE LET cur_written == r.val IN
         IF ~(cur_written <= cur.remaining) THEN Panic(t, cur, cur.remaining, js)
         ELSE IF cur_written = 0
              THEN Return(t, cur, cur.remaining, Ok(cur.full_len), js)
         ELSE copy_file_range_loop(t, cur, cur.remaining - cur_written, js)

\* copy_file_range's loop body trying again after a step that moved nothing.
copy_file_range_after_retry_zero(t, cur, r, js) ==
    IF ~r.ok THEN Return(t, cur, cur.remaining, Err(r.err), js)
    ELSE LET cur_written == r.val IN
         IF ~(cur_written <= cur.remaining) THEN Panic(t, cur, cur.remaining, js)
         ELSE copy_file_range_loop(t, cur, cur.remaining - cur_written, js)

\* splice_from_pipe's loop body turning end of input into an error.
splice_from_pipe_after_eof_error(t, cur, r, js) ==
    IF ~r.ok THEN Return(t, cur, cur.remaining, Err(r.err), js)
    ELSE LET cur_written == r.val IN
         IF ~(cur_written <= cur.remaining) THEN Panic(t, cur, cur.remaining, js)
         ELSE IF cur_written = 0
              THEN Return(t, cur, cur.remaining, Err(OtherError("unexpected eof")), js)
         ELSE splice_from_pipe_loop(t, cur, cur.remaining - cur_written, js)

\* splice_from_pipe's loop body without its assertion.
splice_from_pipe_after_unasserted(t, cur, r, js) ==
    IF ~r.ok THEN Return(t, cur, cur.remaining, Err(r.err), js)
    ELSE LET cur_written == r.val IN
         IF cur_written = 0
         THEN Return(t, cur, cur.remaining, Ok(cur.full_len - cur.remaining), js)
         ELSE splice_from_pipe_loop(t, cur, cur.remaining - cur_written, js)

\* splice_to_pipe's loop body returning the bytes moved so far on an error.
splice_to_pipe_after_partial(t, cur, r, js) ==
    IF ~r.ok THEN Return(t, cur, cur.remaining, Ok(cur.full_len - cur.remaining), js)
    ELSE LET cur_written == r.val IN
         IF ~(cur_written <= cur.remaining) THEN Panic(t, cur, cur.remaining, js)
         ELSE IF cur_written = 0
              THEN Return(t, cur, cur.remaining, Ok(cur.full_len - cur.remaining), js)
         ELSE splice_to_pipe_loop(t, cur, cur.remaining - cur_written, js)

\* The body of the loop after the await, given the step's io::Result r:
\* `?`, the assert, the zero-progress return, the subtraction.
copy_file_range_after(t, cur, r, js) ==
    IF ~r.ok THEN Return(t, cur, cur.remaining, Err(r.err), js)
    ELSE LET cur_written == r.val IN
         IF ~(cur_written <= cur.remaining) THEN Panic(t, cur, cur.remaining, js)
         ELSE IF cur_written = 0
              THEN Return(t, cur, cur.remaining, Ok(cur.full_len - cur.remaining), js)
         ELSE copy_file_range_loop(t, cur, cur.remaining - cur_written, js)

splice_from_pipe_after(t, cur, r, js) ==
    IF ~r.ok THEN Return(t, cur, cur.remaining, Err(r.err), js)
    ELSE LET cur_written == r.val IN
         IF ~(cur_written <= cur.remaining) THEN Panic(t, cur, cur.remaining, js)
         ELSE IF cur_written = 0
              THEN Return(t, cur, cur.remaining, Ok(cur.full_len - cur.remaining), js)
         ELSE splice_from_pipe_loop(t, cur, cur.remaining - cur_written, js)

splice_to_pipe_after(t, cur, r, js) ==
    IF ~r.ok THEN Return(t, cur, cur.remaining, Err(r.err), js)
    ELSE LET cur_written == r.val IN
         IF ~(cur_written <= cur.remaining) THEN Panic(t, cur, cur.remaining, js)
         ELSE IF cur_written = 0
              THEN Return(t, cur, cur.remaining, Ok(cur.full_len - cur.remaining), js)
         ELSE splice_to_pipe_loop(t, cur, cur.remaining - cur_written, js)

\* A strategy value is lent (Pin<&mut>) to at most one running call, and a
\* caller starts no transfer through a strategy while a syscall of an
\* abandoned call is still in flight on it.
InUse(e) ==
    \/ \E t \in Tasks : task[t].pc = "await" /\ e \in EndsOfTask(t)
    \/ \E j \in jobs : e \in JobEnds(j)

CanBegin(t) ==
    /\ task[t].pc # "await"
    /\ \A e \in EndsOfTask(t) : handle[e].state = "ok" /\ ~InUse(e)

\* The record of a call that begins: its argument and where its ends stand.
Fresh(t, fl) ==
    [IdleTask EXCEPT
        !.full_len = fl,
        !.remaining = fl,
        !.start = [e \in Ends |->
                    IF e \in EndsOfTask(t)
                    THEN [at |-> Position(e), pos |-> fds[handle[e].fd].pos,
                          size |-> Len(files[handle[e].fd])]
                    ELSE NoStart]]

\* copy_file_range(src, dst, full_len) is called and runs to its first await.
copy_file_range(fl) ==
    /\ CanBegin("copy_file_range")
    /\ copy_file_range_loop("copy_file_range", Fresh("copy_file_range", fl), fl, jobs)
    /\ UNCHANGED <<files, fds, handle, pipe, keep, life, direct, aside>>

splice_from_pipe(fl) ==
    /\ CanBegin("splice_from_pipe")
    /\ splice_from_pipe_loop("splice_from_pipe", Fresh("splice_from_pipe", fl), fl, jobs)
    /\ UNCHANGED <<files, fds, handle, pipe, keep, life, direct, aside>>

splice_to_pipe(fl) ==
    /\ CanBegin("splice_to_pipe")
    /\ splice_to_pipe_loop("splice_to_pipe", Fresh("splice_to_pipe", fl), fl, jobs)
    /\ UNCHANGED <<files, fds, handle, pipe, keep, life, direct, aside>>

\* The worker reported completion and the awaiting call can take result j.ret.
Ready(t, j) ==
    /\ task[t].pc = "await"
    /\ j.task = t /\ j.state = "finished" /\ ~j.detached

\* The call's record as it resumes with the step's result.
Resumed(t, j) ==
    [task[t] EXCEPT !.lastStep = IF j.ret.ok THEN j.ret.val ELSE @]

copy_file_range_resume ==
    /\ \E j \in jobs :
        /\ Ready("copy_file_range", j)
        /\ copy_file_range_after("copy_file_range", Resumed("copy_file_range", j),
                                 j.ret, jobs \ {j})
    /\ UNCHANGED <<files, fds, handle, pipe, keep, life, direct, aside>>

splice_from_pipe_resume ==
    /\ \E j \in jobs :
        /\ Ready("splice_from_pipe", j)
        /\ splice_from_pipe_after("splice_from_pipe", Resumed("splice_from_pipe", j),
                                  j.ret, jobs \ {j})
    /\ UNCHANGED <<files, fds, handle, pipe, keep, life, direct, aside>>

splice_to_pipe_resume ==
    /\ \E j \in jobs :
        /\ Ready("splice_to_pipe", j)
        /\ splice_to_pipe_after("splice_to_pipe", Resumed("splice_to_pipe", j),
                                j.ret, jobs \ {j})
    /\ UNCHANGED <<files, fds, handle, pipe, keep, life, direct, aside>>

\* A cancellation that takes the queued closure back from the pool.
Cancel_retracting(t) ==
    /\ task[t].pc = "await"
    /\ jobs' = {j \in jobs : j.task # t}
    /\ Settle(t, [IdleTask EXCEPT
            !.pc = "cancelled", !.start = task[t].start,
            !.callMoved = task[t].callMoved])
    /\ UNCHANGED <<files, fds, handle, pipe, keep, life, direct, aside>>

\* The future of the call is dropped at its await, and its locals with it.
\* The JoinHandle goes too: a closure already handed to the pool still runs,
\* its result unread; a result that was ready is dropped.
Cancel(t) ==
    /\ task[t].pc = "await"
    /\ jobs' = {[j EXCEPT !.detached = @ \/ j.task = t] :
                    j \in {k \in jobs : ~(k.task = t /\ k.state = "finished")}}
    /\ Settle(t, [IdleTask EXCEPT
            !.pc = "cancelled", !.start = task[t].start,
            !.callMoved = task[t].callMoved])
    /\ UNCHANGED <<files, fds, handle, pipe, keep, life, direct, aside>>

Next ==
    \/ \E e \in Ends, r \in Roles : MutateInnerOffset_new(e, r)
    \/ \E e \in Ends, r \in Roles, i \in 0..MaxInit : FromGivenOffset_new(e, r, i)
    \/ \E fl \in 0..MaxFull : copy_file_range(fl)
    \/ \E fl \in 0..MaxFull : splice_to_pipe(fl)
    \/ \E fl \in 0..MaxFull : splice_from_pipe(fl)
    \/ copy_file_range_resume
    \/ splice_to_pipe_resume
    \/ splice_from_pipe_resume
    \/ \E t \in Tasks : Cancel(t)
    \/ \E j \in jobs : SysOk(j)
    \/ \E j \in jobs : SysFail(j)
    \/ ClosePipeWrite

Spec == Init /\ [][Next]_vars

\* The constructors alone, over every kind of descriptor.
NextValidate ==
    \/ \E e \in Ends, r \in Roles : MutateInnerOffset_new(e, r)
    \/ \E e \in Ends, r \in Roles, i \in 0..MaxInit : FromGivenOffset_new(e, r, i)

SpecValidate == InitValidate /\ [][NextValidate]_vars

\* ------------------------------------------------- test_splice_blocking
\* The scenario of test_splice_blocking: two temporary files opened
\* read-write, the source rewound after it was written, a
\* MutateInnerOffset reader over the source and a FromGivenOffset writer
\* at counter 0 over the destination, then one task per direction of the pipe,
\* each asking for the whole length.  The test keeps what the tasks return.
TempFds ==
    [fd \in Fds |-> [open |-> TRUE, st_mode |-> S_IFREG + 384, flags |-> O_RDWR, pos |-> 0]]

InitSplice ==
    InitWith({TempFds}, 0..MaxSpliceLen, TRUE) /\ probe = NoProbe /\ deflater = NoDeflater

in_file_new == MutateInnerOffset_new("src", Readable)

out_file_handle_new ==
    /\ handle["src"].state = "ok"
    /\ FromGivenOffset_new("dst", Writable, 0)

w_task ==
    /\ task["splice_to_pipe"].pc = "idle"
    /\ handle["dst"].state = "ok"
    /\ splice_to_pipe(Len(files[InFd]))

r_task ==
    /\ task["splice_from_pipe"].pc = "idle"
    /\ handle["src"].state = "ok"
    /\ splice_from_pipe(Len(files[InFd]))

\* w_task's closure owns the write end `w`: it is dropped when the task ends.
w_task_end ==
    /\ task["splice_to_pipe"].pc \in {"done", "panicked"}
    /\ ClosePipeWrite

NextSplice ==
    \/ in_file_new
    \/ out_file_handle_new
    \/ w_task
    \/ r_task
    \/ splice_to_pipe_resume
    \/ splice_from_pipe_resume
    \/ w_task_end
    \/ \E j \in jobs : SysOk(j)

\* The runtime polls every spawned task that can run and the pool's workers
\* run every queued closure whose syscall can return.
SpecSplice == InitSplice /\ [][NextSplice]_vars /\ WF_vars(NextSplice)

\* ------------------------------------------------------ a step gone wrong
\* A step primitive that breaks its contract: the call it made reports one
\* byte more than the length it was given.
SysOver(j) ==
    /\ j \in jobs /\ j.state = "queued" /\ ~j.detached
    /\ Finish(j, Ok(j.len + 1))
    /\ Settle(j.task, task[j.task])
    /\ UNCHANGED <<files, fds, handle, pipe, keep, life, direct, aside>>

NextOver ==
    \/ \E e \in Ends, r \in Roles : MutateInnerOffset_new(e, r)
    \/ \E e \in Ends, r \in Roles, i \in 0..MaxInit : FromGivenOffset_new(e, r, i)
    \/ \E fl \in 0..MaxFull : copy_file_range(fl)
    \/ \E fl \in 0..MaxFull : splice_to_pipe(fl)
    \/ \E fl \in 0..MaxFull : splice_from_pipe(fl)
    \/ copy_file_range_resume
    \/ splice_to_pipe_resume
    \/ splice_from_pipe_resume
    \/ \E j \in jobs : SysOk(j)
    \/ \E j \in jobs : SysOver(j)

SpecOver == Init /\ [][NextOver]_vars

\* ---------------------------------------------------------------- sessions
\* A transfer session over any descriptors: strategies are built, driven and
\* destroyed.
\* Dropping a MutateInnerOffset drops its OwnedFd, which closes the
\* descriptor.  A strategy lent to a running call cannot be dropped.
MutateInnerOffset_drop(e) ==
    /\ handle[e].state = "ok" /\ handle[e].kind = "MutateInnerOffset"
    /\ ~InUse(e)
    /\ handle' = [handle EXCEPT ![e].state = "dropped"]
    /\ fds' = [fds EXCEPT ![handle[e].fd].open = FALSE]
    /\ life' = [life EXCEPT ![handle[e].fd] = [owner |-> "nobody", closes |-> @.closes + 1]]
    /\ SettleAll
    /\ UNCHANGED <<files, pipe, jobs, keep, direct, aside>>

\* into_owned(self): the OwnedFd moves out to the caller; nothing is closed.
into_owned(e) ==
    /\ handle[e].state = "ok" /\ handle[e].kind = "MutateInnerOffset"
    /\ ~InUse(e)
    /\ handle' = [handle EXCEPT ![e].state = "taken"]
    /\ life' = [life EXCEPT ![handle[e].fd].owner = "taken"]
    /\ SettleAll
    /\ UNCHANGED <<files, fds, pipe, jobs, keep, direct, aside>>

\* A FromGivenOffset that closes the descriptor it was built over.
FromGivenOffset_drop_closing(e) ==
    /\ handle[e].state = "ok" /\ handle[e].kind = "FromGivenOffset"
    /\ ~InUse(e)
    /\ handle' = [handle EXCEPT ![e].state = "dropped"]
    /\ fds' = [fds EXCEPT ![handle[e].fd].open = FALSE]
    /\ life' = [life EXCEPT ![handle[e].fd] = [owner |-> "nobody", closes |-> @.closes + 1]]
    /\ SettleAll
    /\ UNCHANGED <<files, pipe, jobs, keep, direct, aside>>

\* Dropping a FromGivenOffset: a RawFd, an i64 and a Role; no Drop code runs.
FromGivenOffset_drop(e) ==
    /\ handle[e].state = "ok" /\ handle[e].kind = "FromGivenOffset"
    /\ ~InUse(e)
    /\ handle' = [handle EXCEPT ![e].state = "dropped"]
    /\ SettleAll
    /\ UNCHANGED <<files, fds, pipe, jobs, keep, life, direct, aside>>

InitSession ==
    InitWith([Fds -> FdChoices], {MaxLen}, FALSE) /\ probe = NoProbe /\ deflater = NoDeflater

NextSession ==
    \/ \E e \in Ends, r \in Roles : MutateInnerOffset_new(e, r)
    \/ \E e \in Ends, r \in Roles, i \in 0..MaxInit : FromGivenOffset_new(e, r, i)
    \/ \E fl \in 0..MaxFull : copy_file_range(fl)
    \/ \E fl \in 0..MaxFull : splice_to_pipe(fl)
    \/ \E fl \in 0..MaxFull : splice_from_pipe(fl)
    \/ copy_file_range_resume
    \/ splice_to_pipe_resume
    \/ splice_from_pipe_resume
    \/ \E j \in jobs : SysOk(j)
    \/ \E e \in Ends : MutateInnerOffset_drop(e)
    \/ \E e \in Ends : into_owned(e)
    \/ \E e \in Ends : FromGivenOffset_drop(e)

SpecSession == InitSession /\ [][NextSession]_vars

\* ---------------------------------------------------- HAS_COPY_FILE_RANGE
\* The static is a once_cell Lazy: the first dereference runs the closure,
\* dereferences that arrive while it runs wait for it, and all of them read
\* the stored value.  The closure is compiled per platform: on Linux it makes
\* the sentinel call, elsewhere it is a constant.
Threads == 1..MaxThreads

Available == [tag |-> "Available", errno |-> 0]
FailedProbe(errno) == [tag |-> "FailedProbe", errno |-> errno]
NotOnThisPlatform == [tag |-> "NotOnThisPlatform", errno |-> 0]
NoValue == [tag |-> "none", errno |-> 0]

\* What copy_file_range(INVALID_FD, NULL, INVALID_FD, NULL, 1, 0) can fail
\* with besides EBADF: ENOSYS on a kernel without the call, EPERM under a
\* filter.
OtherProbeErrnos == {38, 1}

IdleThread == [pc |-> "idle", waited |-> FALSE, seen |-> <<>>]

InitProbe ==
    /\ InitWith({OpenedFds}, {0}, FALSE)
    /\ deflater = NoDeflater
    /\ \E os \in {"linux", "other"} :
        probe = [platform |-> os, cell |-> "uninit", value |-> NoValue,
                 errno |-> 0, sentinels |-> 0,
                 th |-> [t \in Threads |-> IdleThread]]

\* The closure's match on the sentinel call's errno.
probe_result_any_errno(errno) == Available

probe_result(errno) ==
    IF errno = EBADF THEN Available ELSE FailedProbe(errno)

\* A dereference that runs the closure whenever the value is not there yet.
deref_racy(t) ==
    /\ probe.th[t].pc = "idle" /\ Len(probe.th[t].seen) < MaxReads
    /\ probe' =
        IF probe.cell = "done"
        THEN [probe EXCEPT !.th[t].seen = Append(@, probe.value)]
        ELSE [probe EXCEPT !.cell = "running", !.th[t].pc = "init"]
    /\ UNCHANGED <<files, fds, handle, pipe, jobs, task, keep, life, direct, deflater>>

\* *HAS_COPY_FILE_RANGE on thread t: reads the value, becomes the one thread
\* that runs the closure, or waits for that thread.
deref(t) ==
    /\ probe.th[t].pc = "idle" /\ Len(probe.th[t].seen) < MaxReads
    /\ probe' =
        IF probe.cell = "done"
        THEN [probe EXCEPT !.th[t].seen = Append(@, probe.value)]
        ELSE IF probe.cell = "uninit"
        THEN [probe EXCEPT !.cell = "running", !.th[t].pc = "init"]
        ELSE [probe EXCEPT !.th[t].pc = "blocked", !.th[t].waited = TRUE]
    /\ UNCHANGED <<files, fds, handle, pipe, jobs, task, keep, life, direct, deflater>>

\* invalid_copy_file_range() in the closure, on Linux: the sentinel call
\* fails (the assert) and its errno is picked up.
invalid_copy_file_range(t) ==
    /\ probe.th[t].pc = "init" /\ probe.platform = "linux"
    /\ \E errno \in {EBADF} \cup OtherProbeErrnos :
        probe' = [probe EXCEPT !.sentinels = @ + 1, !.errno = errno,
                               !.th[t].pc = "probed"]
    /\ UNCHANGED <<files, fds, handle, pipe, jobs, task, keep, life, direct, deflater>>

\* The closure returns and the cell stores its value; the thread that ran it
\* reads it.
HAS_COPY_FILE_RANGE(t) ==
    /\ \/ probe.th[t].pc = "probed" /\ probe.platform = "linux"
       \/ probe.th[t].pc = "init" /\ probe.platform # "linux"
    /\ LET v == IF probe.platform = "linux" THEN probe_result(probe.errno)
                ELSE NotOnThisPlatform IN
       probe' = [probe EXCEPT !.cell = "done", !.value = v,
                              !.th[t].pc = "idle", !.th[t].seen = Append(@, v)]
    /\ UNCHANGED <<files, fds, handle, pipe, jobs, task, keep, life, direct, deflater>>

\* A waiting dereference returns once the value is stored.
deref_wake(t) ==
    /\ probe.th[t].pc = "blocked" /\ probe.cell = "done"
    /\ probe' = [probe EXCEPT !.th[t].pc = "idle", !.th[t].seen = Append(@, probe.value)]
    /\ UNCHANGED <<files, fds, handle, pipe, jobs, task, keep, life, direct, deflater>>

NextProbe ==
    \/ \E t \in Threads : deref(t)
    \/ \E t \in Threads : invalid_copy_file_range(t)
    \/ \E t \in Threads : HAS_COPY_FILE_RANGE(t)
    \/ \E t \in Threads : deref_wake(t)

SpecProbe == InitProbe /\ [][NextProbe]_vars

\* ----------------------------------------------------------------- Deflater
\* One task reads through a Deflater (stream_impls.rs).  The inner source is
\* an AsyncBufRead: `avail` bytes of the compressed stream sit in its buffer,
\* `more` are still to arrive; poll_fill_buf with an empty buffer and bytes
\* to come stores the task's waker and returns Pending, and the arrival of
\* bytes wakes the stored waker.  The task is polled only when it is runnable
\* (pc = "ready"): after a wake-up, or when it starts a read.
InitDeflate ==
    /\ InitWith({OpenedFds}, {0}, FALSE)
    /\ probe = NoProbe
    /\ \E n \in 0..MaxIn :
        deflater = [pc |-> "ready", avail |-> 0, more |-> n, registered |-> FALSE,
                    filled |-> 0, total_in |-> 0, total_out |-> 0]

\* What Decompress::decompress can come back with, given the input slice and
\* the room in the caller's buffer: the bytes it consumed and produced and
\* its status.  Input may be taken in without anything coming out yet.
decompress(input, room) ==
    {[consumed |-> c, read |-> r, ret |-> st] :
        c \in 0..input, r \in 0..room, st \in {"Ok", "BufError", "StreamEnd", "Err"}}

\* The value poll_read returns after the decompress call.
poll_read_match(ret, num_read, eof) ==
    IF ret \in {"Ok", "BufError"} /\ num_read = 0 /\ ~eof THEN "pending"
    ELSE IF ret \in {"Ok", "BufError", "StreamEnd"} THEN "done"
    ELSE "failed"

\* Deflater::poll_read, polled by the runtime.
poll_read ==
    /\ deflater.pc = "ready"
    /\ IF deflater.avail = 0 /\ deflater.more > 0
       THEN \* try_ready!: poll_fill_buf is Pending, the source keeps cx's waker
            deflater' = [deflater EXCEPT !.pc = "pending", !.registered = TRUE]
       ELSE LET eof == deflater.avail = 0 IN
            \E d \in decompress(deflater.avail, MaxOut - deflater.total_out) :
                deflater' = [deflater EXCEPT
                    !.pc = poll_read_match(d.ret, d.read, eof),
                    !.filled = @ + d.read,
                    !.total_out = @ + d.read,
                    !.total_in = @ + d.consumed,
                    !.avail = @ - d.consumed]
    /\ UNCHANGED <<files, fds, handle, pipe, jobs, task, keep, life, direct, probe>>

\* Bytes arrive at the inner source; a waker it holds is woken.
source_supplies ==
    /\ deflater.pc # "none" /\ deflater.more > 0
    /\ \E k \in 1..deflater.more :
        deflater' = [deflater EXCEPT
            !.more = @ - k, !.avail = @ + k,
            !.registered = FALSE,
            !.pc = IF deflater.pc = "pending" /\ deflater.registered THEN "ready" ELSE @]
    /\ UNCHANGED <<files, fds, handle, pipe, jobs, task, keep, life, direct, probe>>

\* The task got its bytes and reads again with an empty buffer.
read_again ==
    /\ deflater.pc = "done" /\ deflater.filled > 0
    /\ deflater.total_out < MaxOut
    /\ deflater' = [deflater EXCEPT !.pc = "ready", !.filled = 0]
    /\ UNCHANGED <<files, fds, handle, pipe, jobs, task, keep, life, direct, probe>>

NextDeflate ==
    \/ poll_read
    \/ source_supplies
    \/ read_again

SpecDeflate == InitDeflate /\ [][NextDeflate]_vars

\* ----------------------------------------------------------------- claims
\* C1: a copy_file_range call asked for at least the N bytes of the source,
\* reading from the source's start into an empty destination at offset 0, in
\* which no syscall fails, returns Ok(N) and leaves the destination holding
\* exactly the source's N bytes, however the kernel split the transfer.
CopiedInFull ==
    LET c == task["copy_file_range"]
        N == Len(files[InFd]) IN
    (/\ c.pc = "done" /\ c.sysErr = NoError
     /\ c.start["src"].at = 0
     /\ c.start["dst"].at = 0 /\ c.start["dst"].size = 0
     /\ c.full_len >= N)
    => /\ c.result = Ok(N)
       /\ files[OutFd] = SubSeq(files[InFd], 1, N)

\* A full copy of a source of two or more bytes that took more than one step.
CopiedInSeveralSteps ==
    LET c == task["copy_file_range"] IN
    /\ c.pc = "done" /\ c.result = Ok(Len(files[InFd]))
    /\ c.start["src"].at = 0 /\ c.start["dst"].at = 0 /\ c.start["dst"].size = 0
    /\ c.result.val >= 2
    /\ c.lastStep \in 1..(c.result.val - 1)
    /\ files[OutFd] = files[InFd]

\* C2: a call of any of the three drivers in which no step fails returns
\* Ok(r) with r the sum of the bytes its steps moved, 0 <= r <= full_len, and
\* r < full_len only when its last step moved 0 bytes; end of input is never
\* an error.
ShortOnlyAtEndOfInput ==
    \A t \in Tasks :
        LET c == task[t] IN
        (c.pc = "done" /\ c.sysErr = NoError)
        => /\ c.result.ok
           /\ c.result.val = c.callMoved
           /\ 0 <= c.result.val /\ c.result.val <= c.full_len
           /\ (c.result.val < c.full_len => c.lastStep = 0)

\* splice_from_pipe came back short after moving something: the pipe ran dry
\* with its write end closed.
SpliceFromPipeShort ==
    LET c == task["splice_from_pipe"] IN
    /\ c.pc = "done" /\ c.result.ok
    /\ 0 < c.result.val /\ c.result.val < c.full_len
    /\ c.lastStep = 0

\* C3: the first step of a driver call whose syscall fails ends the call: no
\* further step is dispatched, the call's result is exactly that error, and
\* the bytes earlier steps moved are not returned.
FirstErrorEndsCall ==
    \A t \in Tasks :
        LET c == task[t] IN
        c.sysErr # NoError
        => /\ c.pc \in {"await", "done", "cancelled"}
           /\ \A j \in jobs : j.task = t => j.state = "finished" /\ j.ret = Err(c.sysErr)
           /\ (c.pc = "done" => c.result = Err(c.sysErr))

\* A call ended by an error after earlier steps had moved bytes.
FailedAfterProgress ==
    \E t \in Tasks :
        /\ task[t].pc = "done" /\ task[t].sysErr # NoError
        /\ task[t].callMoved > 0
        /\ task[t].result = Err(task[t].sysErr)

\* C4: after a driver call through a FromGivenOffset returned Ok(K), the
\* strategy's counter is the counter the call began at plus K and the
\* descriptor's own file position is where it was.
ExplicitCounterAdvances ==
    \A t \in Tasks : \A e \in EndsOfTask(t) :
        (/\ task[t].pc = "done" /\ task[t].result.ok
         /\ handle[e].kind = "FromGivenOffset")
        => /\ handle[e].offset = task[t].start[e].at + task[t].result.val
           /\ fds[handle[e].fd].pos = task[t].start[e].pos

\* A transfer of K > 0 bytes through a FromGivenOffset built with a counter
\* i > 0.
ExplicitCounterMoved ==
    \E t \in Tasks : \E e \in EndsOfTask(t) :
        /\ task[t].pc = "done" /\ task[t].result.ok /\ task[t].result.val > 0
        /\ handle[e].kind = "FromGivenOffset" /\ handle[e].init > 0
        /\ task[t].start[e].at = handle[e].init
        /\ handle[e].offset = handle[e].init + task[t].result.val

\* C5: every syscall on the descriptor of a MutateInnerOffset is given a null
\* offset pointer, and after a driver call through it returned Ok(K) the
\* descriptor's file position is its position before the call plus K.
InternalOffsetMovesFilePosition ==
    /\ \A j \in jobs : \A e \in Ends :
        (handle[e].state = "ok" /\ handle[e].kind = "MutateInnerOffset")
        => /\ (j.fd_in = handle[e].fd => j.off_in = NULL)
           /\ (j.fd_out = handle[e].fd => j.off_out = NULL)
    /\ \A t \in Tasks : \A e \in EndsOfTask(t) :
        (/\ task[t].pc = "done" /\ task[t].result.ok
         /\ handle[e].kind = "MutateInnerOffset")
        => fds[handle[e].fd].pos = task[t].start[e].pos + task[t].result.val

\* A transfer of K > 0 bytes through a MutateInnerOffset on each side.
FilePositionMoved ==
    LET c == task["copy_file_range"] IN
    /\ c.pc = "done" /\ c.result.ok /\ c.result.val > 0
    /\ \A e \in Ends : handle[e].kind = "MutateInnerOffset"
    /\ \A e \in Ends : fds[handle[e].fd].pos = c.result.val

\* C6: on an open regular file a constructor's access-mode check fails
\* exactly when the descriptor's access mode is outside the role's allowed
\* set (Readable: read-only, read-write; Writable: write-only, read-write):
\* write-only is rejected for Readable and accepted for Writable, read-only
\* the other way round, and read-write without append is accepted for both.
AccessModeDecides ==
    \A e \in Ends :
        LET h == handle[e]
            d == fds[FdOf(e)]
            acc == d.flags % 4
            append == (d.flags \div 1024) % 2 = 1
            allowed == IF h.role = Readable THEN acc \in {0, 2} ELSE acc \in {1, 2}
            rejected == /\ h.state = "err" /\ h.err.kind = "Other"
                        /\ h.err.msg \in {"Fd is not readable!", "Fd is not writable!"} IN
        (h.state # "none" /\ d.open /\ (d.st_mode \div 4096) % 16 = 8)
        => /\ rejected <=> ~allowed
           /\ (acc = 1 /\ h.role = Readable => h.state = "err")
           /\ (acc = 0 /\ h.role = Writable => h.state = "err")
           /\ (acc = 2 /\ ~append => h.state = "ok")
           /\ (allowed /\ ~append => h.state = "ok")

\* A write-only descriptor refused as Readable next to a write-only
\* descriptor accepted as Writable.
WriteOnlyBothWays ==
    /\ fds[InFd].flags = O_WRONLY /\ fds[InFd].open /\ fds[InFd].st_mode = S_IFREG + 420
    /\ handle["src"].role = Readable /\ handle["src"].state = "err"
    /\ handle["src"].err = OtherError("Fd is not readable!")
    /\ fds[OutFd].flags = O_WRONLY /\ fds[OutFd].open /\ fds[OutFd].st_mode = S_IFREG + 420
    /\ handle["dst"].role = Writable /\ handle["dst"].state = "ok"

\* C7: a constructor asked for the Writable role fails on every descriptor
\* whose status flags include O_APPEND, whatever its access mode.
AppendNeverWritable ==
    \A e \in Ends :
        LET h == handle[e]
            d == fds[FdOf(e)] IN
        (h.state # "none" /\ h.role = Writable /\ (d.flags \div 1024) % 2 = 1)
        => h.state = "err"

\* A read-write and a write-only append-mode descriptor, both refused as
\* Writable because of the append flag.
AppendRefused ==
    /\ fds[InFd].flags = O_RDWR + O_APPEND /\ fds[OutFd].flags = O_WRONLY + O_APPEND
    /\ \A e \in Ends :
        /\ handle[e].role = Writable /\ handle[e].state = "err"
        /\ handle[e].err = OtherError("Writable Fd was set for append!")

\* C8: cancelling a call after its step was dispatched and before the step
\* completed does not take the syscall back: the closure stays in the pool
\* (detached), runs once, what it does to the offset or file position is
\* applied and stays applied, and its result reaches no call.
CancelledStepStillRuns ==
    /\ [][\A t \in Tasks :
            (task[t].pc = "await" /\ task'[t].pc = "cancelled")
            => \A j \in jobs :
                (j.task = t /\ j.state = "queued")
                => [j EXCEPT !.detached = TRUE] \in jobs']_vars
    /\ [][\A j \in jobs :
            (j.detached /\ j \notin jobs')
            => /\ \A k \in jobs' : k.task # j.task
               /\ \A t \in Tasks :
                    /\ task'[t].pc = "done" => task'[t] = task[t]
                    /\ task[t].pc = "await"
                        => /\ task'[t].pc = "await"
                           /\ task'[t].remaining = task[t].remaining
                           /\ task'[t].lastStep = task[t].lastStep
                           /\ \A k \in jobs' : k.task = t => k \in jobs
               /\ \A e \in JobEnds(j) :
                    handle[e].state = "ok"
                    => Position(e)' - Position(e)
                        = task'[j.task].callMoved - task[j.task].callMoved]_vars
    /\ [](\A t \in Tasks : \A e \in EndsOfTask(t) :
            task[t].pc = "cancelled"
            => Position(e) = task[t].start[e].at + task[t].callMoved)

\* A cancelled call whose dispatched step ran afterwards and moved bytes.
CancelledStepMovedBytes ==
    \E t \in Tasks :
        /\ task[t].pc = "cancelled" /\ task[t].bgMoved > 0
        /\ \A j \in jobs : j.task # t
        /\ \E e \in EndsOfTask(t) : Position(e) > task[t].start[e].at

\* C9: in every reachable state the counter of a FromGivenOffset is
\* non-negative, and every change of the counter is made by a completed
\* syscall whose issuing call is there to observe its result.
CounterChangesObserved ==
    /\ [](\A e \in Ends : handle[e].kind = "FromGivenOffset" => handle[e].offset >= 0)
    /\ [][\A e \in Ends :
            (/\ handle[e].kind = "FromGivenOffset" /\ handle'[e].kind = "FromGivenOffset"
             /\ handle'[e].offset # handle[e].offset)
            => \E j \in jobs :
                /\ e \in {j.off_in, j.off_out}
                /\ ~j.detached /\ task[j.task].pc = "await"
                /\ \E k \in jobs' : k.task = j.task /\ k.state = "finished" /\ k.ret.ok]_vars

ProbedOnce ==
    /\ probe.sentinels <= 1
    /\ Cardinality({t \in Threads : probe.th[t].pc \in {"init", "probed"}}) <= 1
    /\ \A t \in Threads : \A i \in 1..Len(probe.th[t].seen) :
        /\ probe.cell = "done"
        /\ probe.th[t].seen[i] = probe.value

\* The sentinel call was made once, one thread waited for the thread that
\* made it, and two threads have read the value, one of them twice.
ProbeRaced ==
    /\ probe.sentinels = 1
    /\ \E t, u \in Threads :
        /\ t # u /\ probe.th[t].waited
        /\ Len(probe.th[t].seen) >= 1 /\ Len(probe.th[u].seen) >= 2

\* C12: the probe's value is Available exactly when the sentinel call failed
\* with EBADF; with any other errno, ENOSYS included, it is FailedProbe
\* carrying that errno; off Linux it is NotOnThisPlatform and the sentinel
\* call is never made.
ProbeValue ==
    /\ probe.platform # "linux" => probe.sentinels = 0
    /\ probe.cell = "done" =>
        IF probe.platform = "linux"
        THEN /\ probe.sentinels = 1
             /\ (probe.value.tag = "Available") <=> (probe.errno = 9)
             /\ probe.errno # 9 => probe.value = [tag |-> "FailedProbe", errno |-> probe.errno]
        ELSE probe.value.tag = "NotOnThisPlatform"

\* A kernel without the call: ENOSYS, so FailedProbe(ENOSYS).
ProbeFailedNotImplemented ==
    /\ probe.cell = "done" /\ probe.platform = "linux"
    /\ probe.errno = 38
    /\ probe.value = [tag |-> "FailedProbe", errno |-> 38]

StrategyCloses ==
    /\ \A fd \in Fds : life[fd].closes <= 1
    /\ \A e \in Ends :
        LET h == handle[e]
            fd == FdOf(e) IN
        /\ (h.kind = "MutateInnerOffset" /\ h.state = "ok")
            => fds[fd].open /\ life[fd] = [owner |-> "strategy", closes |-> 0]
        /\ (h.kind = "MutateInnerOffset" /\ h.state = "dropped")
            => ~fds[fd].open /\ life[fd] = [owner |-> "nobody", closes |-> 1]
        /\ (h.kind = "MutateInnerOffset" /\ h.state = "taken")
            => fds[fd].open /\ life[fd] = [owner |-> "taken", closes |-> 0]
        /\ h.kind = "FromGivenOffset"
            => /\ life[fd] = [owner |-> "caller", closes |-> 0]
               /\ (h.state \in {"ok", "dropped"} => fds[fd].open)

\* After a transfer: the source's MutateInnerOffset dropped and its descriptor
\* closed once, the destination's FromGivenOffset dropped and its descriptor
\* still open in the caller's hands.
DroppedAfterUse ==
    /\ files[OutFd] # <<>>
    /\ handle["src"].kind = "MutateInnerOffset" /\ handle["src"].state = "dropped"
    /\ life[InFd].closes = 1 /\ ~fds[InFd].open
    /\ handle["dst"].kind = "FromGivenOffset" /\ handle["dst"].state = "dropped"
    /\ handle["dst"].offset > 0
    /\ life[OutFd].closes = 0 /\ fds[OutFd].open

\* C17: validation checks regular file, then access mode, then append, and
\* the first check that fails decides the error: a descriptor that is not a
\* regular file fails as such whatever its flags, a wrong access mode fails
\* as such even with append set; a strategy exists only over a descriptor
\* that passed every check, and syscalls are dispatched only through such
\* strategies.
ValidationOrder ==
    /\ \A e \in Ends :
        LET h == handle[e]
            d == fds[FdOf(e)]
            regular == (d.st_mode \div 4096) % 16 = 8
            acc == d.flags % 4
            append == (d.flags \div 1024) % 2 = 1
            allowed == IF h.role = Readable THEN acc \in {0, 2} ELSE acc \in {1, 2} IN
        /\ (h.state = "err" /\ ~d.open) => h.err = [kind |-> "Os", code |-> 9, msg |-> ""]
        /\ (h.state = "err" /\ d.open /\ ~regular)
            => h.err = OtherError("Fd is not a regular file")
        /\ (h.state = "err" /\ d.open /\ regular /\ ~allowed)
            => h.err = OtherError(IF h.role = Readable THEN "Fd is not readable!"
                                  ELSE "Fd is not writable!")
        /\ (h.state = "err" /\ d.open /\ regular /\ allowed)
            => /\ h.role = Writable /\ append
               /\ h.err = OtherError("Writable Fd was set for append!")
        /\ h.state = "ok"
            => d.open /\ regular /\ allowed /\ ~(h.role = Writable /\ append)
    /\ \A j \in jobs : \A e \in JobEnds(j) :
        LET d == fds[FdOf(e)] IN
        /\ handle[e].state = "ok"
        /\ d.open /\ (d.st_mode \div 4096) % 16 = 8
        /\ ~(handle[e].role = Writable /\ (d.flags \div 1024) % 2 = 1)

\* A FIFO opened write-only for append refused as a Readable source for not
\* being a regular file, next to a read-only append-mode regular file refused
\* as a Writable destination for its access mode.
FirstFailureDecides ==
    /\ fds[InFd].st_mode = 4096 + 420 /\ fds[InFd].flags = O_WRONLY + O_APPEND
    /\ handle["src"].role = Readable /\ handle["src"].state = "err"
    /\ handle["src"].err = OtherError("Fd is not a regular file")
    /\ fds[OutFd].st_mode = S_IFREG + 420 /\ fds[OutFd].flags = O_RDONLY + O_APPEND
    /\ handle["dst"].role = Writable /\ handle["dst"].state = "err"
    /\ handle["dst"].err = OtherError("Fd is not writable!")

\* C18: a descriptor handed to MutateInnerOffset::new is never leaked and
\* never closed twice: whether validation passes or fails, it is left with an
\* owner that closes it, or has been closed once.
NoDescriptorLeak ==
    \A fd \in Fds :
        /\ life[fd].closes <= 1
        /\ ~(fds[fd].open /\ life[fd].owner = "nobody")

\* C19: a syscall is dispatched only through a Readable source and a
\* Writable destination; a step on a strategy of the wrong role fails its
\* assertion with nothing dispatched and no file, counter or file position
\* changed.
RoleAsserted ==
    /\ [](\A j \in jobs :
            /\ j.fd_in # PipeR => handle["src"].role = Readable
            /\ j.fd_out # PipeW => handle["dst"].role = Writable)
    /\ [][\A t \in Tasks :
            LET wrong == \/ t # "splice_from_pipe" /\ handle["src"].role # Readable
                         \/ t # "splice_to_pipe" /\ handle["dst"].role # Writable IN
            /\ (task'[t].pc = "panicked" /\ task'[t] # task[t])
                => /\ wrong
                   /\ jobs' \subseteq jobs
                   /\ UNCHANGED <<files, fds, handle, pipe>>
            /\ (wrong /\ task'[t] # task[t] /\ task'[t].pc # "idle" /\ task'[t].full_len > 0)
                => task'[t].pc = "panicked"]_vars

\* splice_to_pipe through a source built as Writable: the task panicked and
\* nothing is in the pool.
WrongRolePanicked ==
    /\ task["splice_to_pipe"].pc = "panicked"
    /\ handle["src"].state = "ok" /\ handle["src"].role = Writable
    /\ jobs = {} /\ pipe.buf = <<>>
    /\ Position("src") = task["splice_to_pipe"].start["src"].at

\* C15: in each driver every step is asked for exactly the remaining length,
\* full_len less the bytes the call has moved so far; a step that moves
\* bytes makes the remaining length strictly smaller, a step that moves none
\* ends the call; so a call takes at most full_len steps that make progress
\* and one that makes none.
StepsBounded ==
    /\ [](\A t \in Tasks :
            LET c == task[t] IN
            c.pc \in {"await", "done"}
            => /\ 0 <= c.remaining /\ c.remaining <= c.full_len
               /\ c.steps <= c.callMoved + 1
               /\ c.steps <= c.full_len + 1)
    /\ [](\A j \in jobs :
            ~j.detached
            => LET c == task[j.task]
                   now == IF j.state = "finished" /\ j.ret.ok THEN j.ret.val ELSE 0 IN
               /\ c.pc = "await"
               /\ j.len = c.remaining
               /\ j.len = c.full_len - (c.callMoved - now))
    /\ [][\A j \in jobs :
            (/\ j.state = "finished" /\ j.ret.ok /\ j \notin jobs'
             /\ task'[j.task].pc # "cancelled")
            => IF j.ret.val > 0
               THEN /\ task'[j.task].remaining = task[j.task].remaining - j.ret.val
                    /\ task'[j.task].remaining < task[j.task].remaining
               ELSE /\ task'[j.task].pc = "done"
                    /\ task'[j.task].steps = task[j.task].steps]_vars

\* A call that ended on its second step: one byte, then nothing.
EndedOnZeroStep ==
    \E t \in Tasks :
        /\ task[t].pc = "done" /\ task[t].result = Ok(1)
        /\ task[t].full_len >= 2
        /\ task[t].steps = 2 /\ task[t].lastStep = 0

\* C16: when a step reports more bytes than the remaining length it was
\* asked for, the driver panics: it returns neither a count nor an error, it
\* dispatches nothing more, and `remaining` never goes below zero.
OverReportPanics ==
    /\ [](\A t \in Tasks : task[t].remaining >= 0)
    /\ [][\A j \in jobs :
            (j.state = "finished" /\ j.ret.ok /\ j.ret.val > j.len /\ j \notin jobs')
            => /\ task'[j.task].pc = "panicked"
               /\ task'[j.task].result = NoResult
               /\ task'[j.task].remaining = task[j.task].remaining
               /\ \A k \in jobs' : k.task # j.task]_vars

\* A driver that had moved a byte panicked on a step reporting more than
\* was left to move.
PanickedOnOverReport ==
    \E t \in Tasks :
        /\ task[t].pc = "panicked" /\ task[t].result = NoResult
        /\ task[t].callMoved > 0
        /\ task[t].lastStep > task[t].remaining

\* C20: whenever Deflater::poll_read has returned Pending, a wake-up of the
\* reading task is registered with the inner source, or the task has been
\* made runnable again: the task is never parked with nothing to wake it.
PendingHasWaker ==
    deflater.pc = "pending" => deflater.registered

====
